---- MODULE Spec2Model ----
(***************************************************************************)
(* Fetal-brain quality/orientation scorer (ranker.py), the prefix remover  *)
(* (rename.py) and the batch driver that renames case folders.             *)
(* The registration script (ants_register.py) has a specification of its   *)
(* own, SpecReg, over the files of the registration folder.                *)
(*                                                                         *)
(* Numbers.  Python floats are modelled as fixed-point integers:           *)
(*   - features, metrics and reported confidences in thousandths           *)
(*     (1.0 = 1000); the confidence before round(.., 3) in millionths;     *)
(*   - orientation scores in tenths (3.0 = 30, 1.5 = 15);                  *)
(*   - weights of quality_thresholds in hundredths (0.3 = 30).             *)
(* The inputs are chosen so that every division of the code is exact or    *)
(* is truncated exactly as the comment at the operator says.               *)
(*                                                                         *)
(* Text.  A folder name is a sequence of one-character strings, so that    *)
(* split, join, startswith and isdigit work on characters as in Python.    *)
(***************************************************************************)
EXTENDS Integers, Sequences, FiniteSets, TLC

VARIABLES
    image,      \* SpecScore: the slice handed to analyze_dicom_file
    analysis,   \* SpecScore: the record analyze_dicom_file returned, or <<>>
    dry_run,    \* the dry_run argument of the current run
    dirs,       \* folder id -> its current name in the master folder
    files,      \* folder id -> the files it holds (sequence of file inputs)
    orig,       \* folder id -> its name before the first run (history)
    listing,    \* snapshot of master_path.iterdir() taken at the start of a run
    pc,         \* position of the running script
    cur,        \* index of the folder the for-loop is at
    fileIdx,    \* index of the file the inner for-loop is at
    results,    \* analyze_patient_folder: the list `results`
    result,     \* analyze_patient_folder: the last value of `result`
    report,     \* rename_folders_...: the list `results` (one row per folder)
    outcome,    \* folder id -> what the current run printed for it
    attempts,   \* folder id -> number of rename calls made in the current run
    csv,        \* rows written to fetal_brain_orientation_quality_analysis.csv
    newNames,   \* folder id -> new_name computed by the current run, or <<>>
    renamed,    \* rename.py: the list `renamed` of (old name, new name)
    locked,     \* the folders the filesystem refuses to rename (permissions)
    runs,       \* the runs completed so far (history)
    runLimit,   \* how many runs the scenario makes
    scored,     \* folder id -> analyze_dicom_file calls finished in this run (history)
    classOrientation, \* SpecClass: the orientation get_quality_class is called with
    classes,    \* SpecClass: the classes returned for the scores 0, 1, 2, ...
    reg_dir,    \* ants_register.py: the file names in the registration folder
    atlas,      \* ants_register.py: the list `atlas`, then its first element
    mask_files, \* ants_register.py: the list `mask_files`
    maskIdx,    \* ants_register.py: position of the mask loop
    transformed,\* ants_register.py: the files the transform was applied to (history)
    regPc       \* ants_register.py: position of the script

classVars == <<classOrientation, classes>>

regVars == <<reg_dir, atlas, mask_files, maskIdx, transformed, regPc>>

batchVars == <<dry_run, dirs, files, orig, listing, pc, cur, fileIdx, results,
               result, report, outcome, attempts, csv, newNames, renamed, locked, runs,
               runLimit, scored>>

vars == <<image, analysis, batchVars, classVars, regVars>>

(***************************************************************************)
(* Helpers                                                                 *)
(***************************************************************************)
Min(a, b) == IF a <= b THEN a ELSE b

Abs(a) == IF a < 0 THEN -a ELSE a

\* Python's int(): truncation toward zero of num/den (den > 0).
TruncDiv(num, den) == IF num >= 0 THEN num \div den ELSE -((-num) \div den)

\* dict.get(key, default)
Get(d, key, default) == IF key \in DOMAIN d THEN d[key] ELSE default

(***************************************************************************)
(* FetalBrainOrientationDetector.determine_fetal_orientation               *)
(***************************************************************************)
\* The keys of `scores`, in the insertion order of the dict literal.
OrientationOrder == <<"axial", "sagittal", "coronal">>

\* Variant of AxialScore that gives bilateral symmetry 2.0 instead of 3.0.
AxialScoreWeakSymmetry(f) ==
    (IF Get(f, "horizontal_symmetry", 0) > 500 THEN 20 ELSE 0)
  + (IF 800 <= Get(f, "aspect_ratio", 0) /\ Get(f, "aspect_ratio", 0) <= 1300 THEN 20 ELSE 0)
  + (IF Get(f, "intensity_std", 0) > 20000 THEN 10 ELSE 0)

AxialScore(f) ==
    (IF Get(f, "horizontal_symmetry", 0) > 500 THEN 30 ELSE 0)
  + (IF 800 <= Get(f, "aspect_ratio", 0) /\ Get(f, "aspect_ratio", 0) <= 1300 THEN 20 ELSE 0)
  + (IF Get(f, "intensity_std", 0) > 20000 THEN 10 ELSE 0)

SagittalScore(f) ==
    (IF Get(f, "vertical_symmetry", 0) < 300 THEN 20 ELSE 0)
  + (IF 600 <= Get(f, "aspect_ratio", 0) /\ Get(f, "aspect_ratio", 0) <= 1000 THEN 20 ELSE 0)
  + (IF Abs(Get(f, "dominant_line_angle", 90000) - 90000) < 20000 THEN 20 ELSE 0)

CoronalScore(f) ==
    (IF Get(f, "vertical_symmetry", 0) > 400 THEN 20 ELSE 0)
  + (IF 900 <= Get(f, "aspect_ratio", 0) /\ Get(f, "aspect_ratio", 0) <= 1400 THEN 15 ELSE 0)
  + (IF Get(f, "horizontal_symmetry", 0) > 300 THEN 15 ELSE 0)

OrientationScores(f) ==
    [o \in {"axial", "sagittal", "coronal"} |->
        CASE o = "axial" -> AxialScore(f)
          [] o = "sagittal" -> SagittalScore(f)
          [] OTHER -> CoronalScore(f)]

\* max(scores, key=scores.get): the keys are visited in insertion order and a
\* later key replaces the current best only when its value is strictly larger.
RECURSIVE MaxKeyFrom(_, _, _, _)
MaxKeyFrom(order, scores, i, best) ==
    IF i > Len(order) THEN best
    ELSE MaxKeyFrom(order, scores, i + 1,
                    IF scores[order[i]] > scores[best] THEN order[i] ELSE best)

\* Variant of MaxKey in which a later key also wins a tie.
RECURSIVE MaxKeyLastFrom(_, _, _, _)
MaxKeyLastFrom(order, scores, i, best) ==
    IF i > Len(order) THEN best
    ELSE MaxKeyLastFrom(order, scores, i + 1,
                        IF scores[order[i]] >= scores[best] THEN order[i] ELSE best)

MaxKeyLast(order, scores) == MaxKeyLastFrom(order, scores, 2, order[1])

MaxKey(order, scores) == MaxKeyFrom(order, scores, 2, order[1])

\* confidence = min(best_score / 5.0, 1.0), in millionths (tenths / 5 is * 20000).
Confidence(best_score) == Min(best_score * 20000, 1000000)

\* all_features: what analyze_symmetry and detect_anatomical_features return for
\* the cropped region (the values are the inputs of the model).
AllFeatures(img) ==
    [horizontal_symmetry |-> img.hs, vertical_symmetry |-> img.vs,
     aspect_ratio |-> img.ar, dominant_line_angle |-> img.angle,
     line_count |-> img.line_count, intensity_std |-> img.istd,
     intensity_skewness |-> img.skew]

DetermineFetalOrientation(img) ==
    IF ~img.region
    THEN [orientation |-> "unknown", confidence |-> 0, features |-> <<>>]
    ELSE LET f == AllFeatures(img)
             s == OrientationScores(f)
             best == MaxKey(OrientationOrder, s)
         IN [orientation |-> best, confidence |-> Confidence(s[best]), features |-> f]

(***************************************************************************)
(* FetalBrainQualityAssessor                                               *)
(***************************************************************************)
QualityThresholds ==
    [axial    |-> [excellent |-> 75, good |-> 60, fair |-> 40,
                   blur_weight |-> 30, contrast_weight |-> 25, symmetry_weight |-> 20],
     sagittal |-> [excellent |-> 70, good |-> 55, fair |-> 35,
                   blur_weight |-> 35, contrast_weight |-> 20, symmetry_weight |-> 15],
     coronal  |-> [excellent |-> 72, good |-> 58, fair |-> 38,
                   blur_weight |-> 25, contrast_weight |-> 30, symmetry_weight |-> 25],
     unknown  |-> [excellent |-> 65, good |-> 50, fair |-> 30,
                   blur_weight |-> 40, contrast_weight |-> 30, symmetry_weight |-> 10]]

\* metrics: sharpness, contrast and snr are measured on the pixels (inputs of the
\* model, in thousandths); the orientation-specific ones are computed from the
\* features.  1.0 / (|aspect_ratio - 1.0| + 0.1) is truncated to thousandths.
OrientationSpecificQuality(img, orientation, f) ==
    LET base == [sharpness_score |-> img.sharp, contrast |-> img.contrast, snr |-> img.snr]
    IN CASE orientation = "axial" ->
              [sharpness_score |-> img.sharp, contrast |-> img.contrast, snr |-> img.snr,
               bilateral_symmetry |-> Get(f, "horizontal_symmetry", 0),
               shape_regularity |->
                   1000000 \div (Abs(Get(f, "aspect_ratio", 1000) - 1000) + 100)]
         [] orientation = "sagittal" ->
              [sharpness_score |-> img.sharp, contrast |-> img.contrast, snr |-> img.snr,
               midline_clarity |-> 1000 - Get(f, "vertical_symmetry", 500),
               ap_structures |-> Get(f, "intensity_std", 0) \div 50]
         [] orientation = "coronal" ->
              [sharpness_score |-> img.sharp, contrast |-> img.contrast, snr |-> img.snr,
               bilateral_balance |-> Get(f, "horizontal_symmetry", 0),
               vertical_organization |-> Get(f, "vertical_symmetry", 0)]
         [] OTHER -> base

\* orientation_bonus, in millionths: symmetry_weight (hundredths) times the
\* blend of two metrics (thousandths) with weights in tenths.
OrientationBonus(metrics, orientation) ==
    LET w == QualityThresholds[orientation].symmetry_weight
    IN CASE orientation = "axial" ->
              w * (Get(metrics, "bilateral_symmetry", 0) * 6
                   + Get(metrics, "shape_regularity", 0) * 4)
         [] orientation = "sagittal" ->
              w * (Get(metrics, "midline_clarity", 0) * 7
                   + Min(Get(metrics, "ap_structures", 0), 1000) * 3)
         [] orientation = "coronal" ->
              w * (Get(metrics, "bilateral_balance", 0) * 5
                   + Get(metrics, "vertical_organization", 0) * 5)
         [] OTHER -> 0

\* base_score, in millionths.
BaseScore(metrics, orientation) ==
    LET t == QualityThresholds[orientation]
        sharpness_norm == Min(Get(metrics, "sharpness_score", 0) \div 150, 1000)
        contrast_norm == Min(Get(metrics, "contrast", 0) \div 60, 1000)
        snr_norm == Min(Get(metrics, "snr", 0) \div 10, 1000)
    IN 10 * (t.blur_weight * sharpness_norm
             + t.contrast_weight * contrast_norm
             + (100 - t.blur_weight - t.contrast_weight - t.symmetry_weight) * snr_norm)

\* int(min(final_score, 100)) with final_score = (base + bonus) * 100.
CalculateCompositeScore(metrics, orientation) ==
    LET final_score == (BaseScore(metrics, orientation)
                        + OrientationBonus(metrics, orientation)) * 100
    IN TruncDiv(Min(final_score, 100 * 1000000), 1000000)

\* Variant of GetQualityClass whose cutoffs are exclusive.
GetQualityClassStrict(score, orientation) ==
    LET t == QualityThresholds[orientation]
    IN IF score > t.excellent THEN "EXCELLENT"
       ELSE IF score > t.good THEN "GOOD"
       ELSE IF score > t.fair THEN "FAIR"
       ELSE "POOR"

GetQualityClass(score, orientation) ==
    LET t == QualityThresholds[orientation]
    IN IF score >= t.excellent THEN "EXCELLENT"
       ELSE IF score >= t.good THEN "GOOD"
       ELSE IF score >= t.fair THEN "FAIR"
       ELSE "POOR"

\* str.upper() on the four orientation names.
Upper(orientation) ==
    CASE orientation = "axial" -> "AXIAL"
      [] orientation = "sagittal" -> "SAGITTAL"
      [] orientation = "coronal" -> "CORONAL"
      [] OTHER -> "UNKNOWN"

\* get_acquisition_plane_from_metadata: iop is ImageOrientationPatient (its first
\* three components, in thousandths).
GetAcquisitionPlane(iop) ==
    IF Abs(iop[1]) > 900 THEN "SAGITTAL"
    ELSE IF Abs(iop[2]) > 900 THEN "CORONAL"
    ELSE IF Abs(iop[3]) > 900 THEN "AXIAL"
    ELSE "UNKNOWN"

\* round(x, 3): from millionths to thousandths, half to even.
Round3(x) ==
    LET q == x \div 1000
        r == x % 1000
    IN IF r > 500 \/ (r = 500 /\ q % 2 = 1) THEN q + 1 ELSE q

\* The 2-D array analyze_dicom_file works on: the array itself, or the middle
\* frame image_array[shape[0] // 2] of a multi-frame file (0-based index).
SelectFrame(frames) ==
    IF Len(frames) > 1 THEN frames[(Len(frames) \div 2) + 1] ELSE frames[1]

\* analyze_dicom_file.  file.kind tells what pydicom does with the file:
\* "corrupt" raises inside the try block, "nopixel" has no pixel_array.
\* The rounded sharpness/contrast/snr, image_shape and orientation_features
\* entries of the returned dict are not kept.
AnalyzeDicomFile(path, file) ==
    IF file.kind = "corrupt"
    THEN [file_path |-> path, error |-> "exception"]
    ELSE IF file.kind = "nopixel"
    THEN [error |-> "No pixel data found"]
    ELSE LET img == SelectFrame(file.frames)
             det == DetermineFetalOrientation(img)
             metrics == OrientationSpecificQuality(img, det.orientation, det.features)
             composite_score == CalculateCompositeScore(metrics, det.orientation)
         IN [file_path |-> path,
             composite_score |-> composite_score,
             quality_class |-> GetQualityClass(composite_score, det.orientation),
             fetal_orientation |-> Upper(det.orientation),
             orientation_confidence |-> Round3(det.confidence),
             maternal_acquisition_plane |->
                 IF file.iop # <<>> THEN GetAcquisitionPlane(file.iop) ELSE "UNKNOWN"]

(***************************************************************************)
(* Text: folder names as sequences of characters                           *)
(***************************************************************************)
DigitChars == <<"0", "1", "2", "3", "4", "5", "6", "7", "8", "9">>

\* The characters of the words the scripts write into names.
Chars(word) ==
    CASE word = "EXCELLENT" -> <<"E", "X", "C", "E", "L", "L", "E", "N", "T">>
      [] word = "GOOD" -> <<"G", "O", "O", "D">>
      [] word = "FAIR" -> <<"F", "A", "I", "R">>
      [] word = "POOR" -> <<"P", "O", "O", "R">>
      [] word = "AXIAL" -> <<"A", "X", "I", "A", "L">>
      [] word = "SAGITTAL" -> <<"S", "A", "G", "I", "T", "T", "A", "L">>
      [] word = "CORONAL" -> <<"C", "O", "R", "O", "N", "A", "L">>
      [] word = "UNKNOWN" -> <<"U", "N", "K", "N", "O", "W", "N">>

\* str.isdigit(): non-empty and every character a digit.
IsDigit(s) ==
    /\ Len(s) > 0
    /\ \A i \in 1..Len(s) : \E d \in 1..10 : s[i] = DigitChars[d]

\* str.startswith(prefix)
StartsWith(s, prefix) ==
    /\ Len(s) >= Len(prefix)
    /\ SubSeq(s, 1, Len(prefix)) = prefix

\* Index of the first "_" of s at or after position i, or 0.
RECURSIVE FindSep(_, _)
FindSep(s, i) ==
    IF i > Len(s) THEN 0
    ELSE IF s[i] = "_" THEN i
    ELSE FindSep(s, i + 1)

\* str.split("_", maxsplit): at most maxsplit cuts, the rest kept whole;
\* maxsplit = -1 cuts at every "_".
RECURSIVE SplitMax(_, _)
SplitMax(s, maxsplit) ==
    LET i == FindSep(s, 1)
    IN IF maxsplit = 0 \/ i = 0 THEN <<s>>
       ELSE <<SubSeq(s, 1, i - 1)>>
            \o SplitMax(SubSeq(s, i + 1, Len(s)),
                        IF maxsplit < 0 THEN maxsplit ELSE maxsplit - 1)

Split(s) == SplitMax(s, -1)

\* "_".join(parts)
RECURSIVE Join(_)
Join(parts) ==
    IF Len(parts) = 0 THEN <<>>
    ELSE IF Len(parts) = 1 THEN parts[1]
    ELSE parts[1] \o <<"_">> \o Join(Tail(parts))

\* The decimal digits of n >= 0.
RECURSIVE IntToStr(_)
IntToStr(n) ==
    IF n < 10 THEN <<DigitChars[n + 1]>>
    ELSE IntToStr(n \div 10) \o <<DigitChars[(n % 10) + 1]>>

\* Variant of Format02d without the zero padding, as format(n, "d").
FormatUnpadded(n) ==
    IF n < 0 THEN <<"-">> \o IntToStr(-n) ELSE IntToStr(n)

\* format(n, "02d"): sign first, then zeros up to a total width of 2.
Format02d(n) ==
    IF n < 0 THEN <<"-">> \o IntToStr(-n)
    ELSE IF n < 10 THEN <<"0">> \o IntToStr(n)
    ELSE IntToStr(n)

(***************************************************************************)
(* analyze_patient_folder                                                  *)
(***************************************************************************)
\* list(glob("*.dcm")) + list(glob("*.DCM")) on a case-sensitive filesystem.
DicomFiles(fs) ==
    SelectSeq(fs, LAMBDA f : f.ext = "dcm") \o SelectSeq(fs, LAMBDA f : f.ext = "DCM")

\* max(results, key=lambda x: x['composite_score']): the first maximal element.
RECURSIVE BestFrom(_, _, _)
BestFrom(rs, i, best) ==
    IF i > Len(rs) THEN best
    ELSE BestFrom(rs, i + 1,
                  IF rs[i].composite_score > rs[best].composite_score THEN i ELSE best)

\* Variant of BestResult that takes the file analysed last.
BestResultLast(rs) == rs[Len(rs)]

BestResult(rs) == rs[BestFrom(rs, 2, 1)]

\* orientations.count(o)
Count(rs, o) == Cardinality({i \in 1..Len(rs) : rs[i].fetal_orientation = o})

\* max(set(orientations), key=orientations.count): the set is iterated in hash
\* order, which Python randomises per process for strings, so any orientation
\* with the highest count can come out.
MostCommonChoices(rs) ==
    {o \in {rs[i].fetal_orientation : i \in 1..Len(rs)} :
        \A i \in 1..Len(rs) : Count(rs, rs[i].fetal_orientation) <= Count(rs, o)}

RECURSIVE SumScores(_)
SumScores(rs) ==
    IF Len(rs) = 0 THEN 0 ELSE rs[1].composite_score + SumScores(Tail(rs))

\* round(np.mean(scores), 1), in tenths, half to even.
AvgScore(rs) ==
    LET n == Len(rs)
        t == SumScores(rs) * 10
        q == t \div n
        r == t % n
    IN IF 2 * r > n \/ (2 * r = n /\ q % 2 = 1) THEN q + 1 ELSE q

\* The dict analyze_patient_folder returns when some file was scored;
\* most_common is the orientation the set iteration produced.
FolderSummary(name, dicom_files, rs, most_common) ==
    LET best == BestResult(rs)
    IN [folder_name |-> name,
        total_dicoms |-> Len(dicom_files),
        valid_dicoms |-> Len(rs),
        best_score |-> best.composite_score,
        best_quality_class |-> best.quality_class,
        best_file |-> best.file_path,
        fetal_orientation |-> best.fetal_orientation,
        orientation_confidence |-> best.orientation_confidence,
        maternal_acquisition_plane |-> best.maternal_acquisition_plane,
        most_common_fetal_orientation |-> most_common,
        avg_score |-> AvgScore(rs),
        all_results |-> rs]

(***************************************************************************)
(* rename_folders_with_scores_and_orientation: building the new name       *)
(***************************************************************************)
PrefixWords == {"EXCELLENT", "GOOD", "FAIR", "POOR", "AXIAL", "SAGITTAL", "CORONAL"}

\* any(original_name.startswith(prefix) for prefix in [...])
HasKnownPrefix(name) ==
    \E w \in PrefixWords : StartsWith(name, Chars(w) \o <<"_">>)

\* The fields kept by the clean-up loop (skip_next is never set in the code).
CleanParts(parts) ==
    SelectSeq(parts, LAMBDA part :
        ~(IsDigit(part) \/ \E w \in PrefixWords : part = Chars(w)))

\* "Remove existing prefixes if present"
CleanName(name) ==
    IF HasKnownPrefix(name)
    THEN LET clean_parts == CleanParts(Split(name))
         IN IF Len(clean_parts) > 0 THEN Join(clean_parts) ELSE name
    ELSE name

\* confidence_str; conf is in thousandths.
ConfidenceStr(conf) ==
    IF conf > 500 THEN <<"C">> \o Format02d(TruncDiv(conf * 100, 1000))
    ELSE <<"C", "?", "?">>

NewName(summary, folder_name) ==
    Format02d(summary.best_score) \o <<"_">>
    \o Chars(summary.best_quality_class) \o <<"_">>
    \o Chars(summary.fetal_orientation) \o <<"_">>
    \o ConfidenceStr(summary.orientation_confidence) \o <<"_">>
    \o CleanName(folder_name)

(***************************************************************************)
(* SpecScore: one slice through the scoring functions                      *)
(***************************************************************************)
HSValues == {-1000, 0, 300, 400, 500, 1000}
VSValues == {-1000, 0, 300, 450, 1000}
ARValues == {500, 600, 800, 900, 1000, 1300, 1400, 2000}
\* <<dominant_line_angle, line_count>>: no line gives angle 0
LineValues == {<<0, 0>>, <<0, 4>>, <<70000, 4>>, <<80000, 4>>, <<90000, 4>>}
StdValues == {20000, 30000, 60000}
SkewValues == {0, 500}
SharpValues == {3000, 75000, 600000}
ContrastValues == {1200, 90000}
SnrValues == {500, 50000}

MkImage(region, hs, vs, ar, ln, istd, skew, sharp, contrast, snr) ==
    [region |-> region, hs |-> hs, vs |-> vs, ar |-> ar, angle |-> ln[1],
     line_count |-> ln[2], istd |-> istd, skew |-> skew,
     sharp |-> sharp, contrast |-> contrast, snr |-> snr]

SliceInputs ==
    {MkImage(TRUE, hs, vs, ar, ln, istd, skew, sharp, contrast, snr) :
        hs \in HSValues, vs \in VSValues, ar \in ARValues, ln \in LineValues,
        istd \in StdValues, skew \in SkewValues, sharp \in SharpValues,
        contrast \in ContrastValues, snr \in SnrValues}
    \cup
    {MkImage(FALSE, 0, 0, 1000, <<0, 0>>, 0, 0, sharp, contrast, snr) :
        sharp \in SharpValues, contrast \in ContrastValues, snr \in SnrValues}

\* The batch variables while no batch script runs; position is "score" while
\* the scoring functions run and "off" otherwise.
BatchUnused(position) ==
    /\ dry_run = TRUE
    /\ dirs = <<>> /\ files = <<>> /\ orig = <<>> /\ listing = <<>>
    /\ pc = position /\ cur = 0 /\ fileIdx = 0
    /\ results = <<>> /\ result = <<>> /\ report = <<>>
    /\ outcome = <<>> /\ attempts = <<>> /\ csv = <<>> /\ newNames = <<>>
    /\ renamed = <<>> /\ locked = {}
    /\ runs = <<>> /\ runLimit = 0
    /\ scored = <<>>

BatchIdle == BatchUnused("score")

\* The variables of get_quality_class's table while it is not being built.
ClassIdle == classOrientation = "unknown" /\ classes = <<>>

\* The variables of ants_register.py while the script is not run.
RegIdle ==
    /\ reg_dir = {} /\ atlas = <<>> /\ mask_files = <<>>
    /\ maskIdx = 0 /\ transformed = {} /\ regPc = "off"

InitScore ==
    /\ image \in SliceInputs
    /\ analysis = <<>>
    /\ BatchIdle
    /\ ClassIdle
    /\ RegIdle

\* analyze_dicom_file on a readable single-frame file holding `image`; the
\* intermediate values of the call are kept beside the returned record.
AnalyzeSlice ==
    /\ pc = "score"
    /\ analysis = <<>>
    /\ LET det == DetermineFetalOrientation(image)
           metrics == OrientationSpecificQuality(image, det.orientation, det.features)
       IN analysis' =
            [detected |-> det,
             metrics |-> metrics,
             score |-> CalculateCompositeScore(metrics, det.orientation),
             record |-> AnalyzeDicomFile("slice.dcm",
                          [kind |-> "ok", frames |-> <<image>>, iop |-> <<>>])]
    /\ UNCHANGED <<classVars, regVars, image, batchVars>>

NextScore == AnalyzeSlice

SpecScore == InitScore /\ [][NextScore]_vars

(***************************************************************************)
(* Properties of the scoring functions (SpecScore)                         *)
(***************************************************************************)
Scored == analysis # <<>>

\* a is before b in the fixed order axial, sagittal, coronal
Earlier(a, b) ==
    <<a, b>> \in {<<"axial", "sagittal">>, <<"axial", "coronal">>, <<"sagittal", "coronal">>}

\* C2: calculate_composite_score returns an integer between 0 and 100 for every
\* orientation and every metric input, symmetry metrics anywhere in [-1, 1].
C2_ScoreWithin0And100 ==
    Scored => (analysis.score \in Int /\ 0 <= analysis.score /\ analysis.score <= 100)

\* C3: the orientation returned has the maximal additive score, the earliest of
\* axial, sagittal, coronal among those that share it, and the confidence is
\* min(best_score / 5.0, 1.0), which lies in [0, 1].
C3_ArgmaxFirstAndConfidence ==
    (Scored /\ image.region) =>
        LET s == OrientationScores(AllFeatures(image))
            o == analysis.detected.orientation
            c == analysis.detected.confidence
        IN /\ o \in {"axial", "sagittal", "coronal"}
           /\ \A k \in {"axial", "sagittal", "coronal"} :
                 /\ s[k] <= s[o]
                 /\ Earlier(k, o) => s[k] < s[o]
           /\ c = (IF s[o] >= 50 THEN 1000000 ELSE s[o] * 20000)
           /\ 0 <= c /\ c <= 1000000

\* C3 witness: sagittal and coronal tie below nothing (both beat axial) and the
\* earlier one, sagittal, is returned.
C3_Witness ==
    /\ Scored /\ image.region
    /\ LET s == OrientationScores(AllFeatures(image))
       IN s["sagittal"] = s["coronal"] /\ s["axial"] < s["sagittal"]
    /\ analysis.detected.orientation = "sagittal"

\* The case of C4: left-right symmetric, no top-bottom symmetry, square region.
C4_Case ==
    /\ Scored /\ image.region
    /\ image.hs > 500 /\ Abs(image.vs) <= 100 /\ image.ar = 1000

\* C4 as stated: in that case the axial score is at least 5.0, the confidence
\* 1.0 and the orientation axial, whatever the remaining features are.
C4_AlwaysAxial ==
    C4_Case =>
        /\ AxialScore(AllFeatures(image)) >= 50
        /\ analysis.detected.confidence = 1000000
        /\ analysis.detected.orientation = "axial"

\* C4 amended: in that case the axial score is at least 5.0 and the confidence
\* is 1.0; the orientation is axial exactly when intensity_std > 20 or the
\* dominant line angle is 20 degrees or more away from 90, and sagittal otherwise.
C4_AxialUnlessVerticalLines ==
    C4_Case =>
        /\ AxialScore(AllFeatures(image)) >= 50
        /\ analysis.detected.confidence = 1000000
        /\ analysis.detected.orientation =
              (IF image.istd > 20000 \/ Abs(image.angle - 90000) >= 20000
               THEN "axial" ELSE "sagittal")

\* C4 witness: the case with vertical lines and good contrast, classified axial.
C4_Witness ==
    /\ C4_Case
    /\ image.angle = 90000 /\ image.istd > 20000
    /\ analysis.detected.orientation = "axial"

(***************************************************************************)
(* SpecClass: get_quality_class over the whole score range                 *)
(***************************************************************************)
\* The largest composite score: int(min(final_score, 100)).
MaxScore == 100

Orientations == {"axial", "sagittal", "coronal", "unknown"}

InitClass ==
    /\ classOrientation \in Orientations
    /\ classes = <<>>
    /\ image = MkImage(FALSE, 0, 0, 1000, <<0, 0>>, 0, 0, 3000, 1200, 500)
    /\ analysis = <<>>
    /\ BatchIdle
    /\ RegIdle

\* get_quality_class(score, orientation) for the next score, 0 first; the
\* class returned for score s is kept as classes[s + 1].
ClassifyNext ==
    /\ pc = "score"
    /\ Len(classes) <= MaxScore
    /\ classes' = Append(classes, GetQualityClass(Len(classes), classOrientation))
    /\ UNCHANGED <<classOrientation, regVars, image, analysis, batchVars>>

NextClass == ClassifyNext

SpecClass == InitClass /\ [][NextClass]_vars

\* POOR < FAIR < GOOD < EXCELLENT
ClassRank(c) ==
    CASE c = "POOR" -> 0
      [] c = "FAIR" -> 1
      [] c = "GOOD" -> 2
      [] c = "EXCELLENT" -> 3

\* C11: for every score in 0..100 and every orientation, get_quality_class
\* returns EXCELLENT exactly when the score is at or above the orientation's
\* excellent cutoff, GOOD exactly from the good cutoff up to below the
\* excellent one, FAIR exactly from the fair cutoff up to below the good one,
\* POOR exactly below the fair cutoff; a higher score never has a worse class.
C11_ClassMatchesCutoffs ==
    LET t == QualityThresholds[classOrientation]
    IN /\ \A k \in 1..Len(classes) :
            LET s == k - 1
                c == classes[k]
            IN /\ (c = "EXCELLENT") <=> (s >= t.excellent)
               /\ (c = "GOOD") <=> (t.good <= s /\ s < t.excellent)
               /\ (c = "FAIR") <=> (t.fair <= s /\ s < t.good)
               /\ (c = "POOR") <=> (s < t.fair)
       /\ \A j, k \in 1..Len(classes) :
            j < k => ClassRank(classes[j]) <= ClassRank(classes[k])

\* C11 witness: the whole range 0..100 was classified for coronal, and the
\* scores 37, 38, 57, 58, 71, 72 sit on both sides of its three cutoffs.
C11_Witness ==
    /\ classOrientation = "coronal"
    /\ Len(classes) = MaxScore + 1
    /\ classes[38] = "POOR" /\ classes[39] = "FAIR"
    /\ classes[58] = "FAIR" /\ classes[59] = "GOOD"
    /\ classes[72] = "GOOD" /\ classes[73] = "EXCELLENT"

(***************************************************************************)
(* The batch: a master folder of case folders                              *)
(***************************************************************************)
NumFolders == 2
MaxFiles == 2
MaxRuns == 2

Folders == 1..NumFolders

ImgAxial == MkImage(TRUE, 1000, 0, 1000, <<0, 0>>, 30000, 0, 600000, 90000, 50000)
ImgSagittal == MkImage(TRUE, 0, 0, 800, <<90000, 4>>, 30000, 0, 75000, 90000, 50000)
ImgCoronal == MkImage(TRUE, -1000, 450, 1400, <<0, 0>>, 20000, 0, 3000, 1200, 500)
ImgNoRegion == MkImage(FALSE, 0, 0, 1000, <<0, 0>>, 0, 0, 3000, 1200, 500)

FileAxial == [ext |-> "dcm", kind |-> "ok", frames |-> <<ImgAxial>>, iop |-> <<0, 0, 1000>>]
FileMultiFrame ==
    [ext |-> "DCM", kind |-> "ok", frames |-> <<ImgCoronal, ImgSagittal, ImgAxial>>,
     iop |-> <<1000, 0, 0>>]
FileCoronal == [ext |-> "dcm", kind |-> "ok", frames |-> <<ImgCoronal>>, iop |-> <<>>]
FileNoRegion == [ext |-> "dcm", kind |-> "ok", frames |-> <<ImgNoRegion>>, iop |-> <<0, 0, 0>>]
FileNoPixel == [ext |-> "dcm", kind |-> "nopixel", frames |-> <<>>, iop |-> <<>>]
FileCorrupt == [ext |-> "DCM", kind |-> "corrupt", frames |-> <<>>, iop |-> <<>>]
FileOther == [ext |-> "txt", kind |-> "other", frames |-> <<>>, iop |-> <<>>]

NameA == <<"a">>
NameB == <<"b", "_", "2">>
NameGoodA == Chars("GOOD") \o <<"_", "a">>
NameAxial7B == Chars("AXIAL") \o <<"_", "7", "_", "b">>
NameNumeric == <<"1", "2", "_", "x", "_", "y">>
NameHidden == <<".", "h">>

BoundedSeqs(S, n) == UNION {[1..k -> S] : k \in 0..n}

\* The ways to put the files of one sequence, in order, into the folders.
Distribute(fs) ==
    {[i \in Folders |->
        SubSeq(fs, (IF i = 1 THEN 0 ELSE cut[i - 1]) + 1,
                   IF i = NumFolders THEN Len(fs) ELSE cut[i])] :
        cut \in {c \in [1..(NumFolders - 1) -> 0..Len(fs)] :
                    \A i \in 1..(NumFolders - 2) : c[i] <= c[i + 1]}}

Injective(f) == \A i, j \in DOMAIN f : f[i] = f[j] => i = j

ScoreIdle == image = ImgAxial /\ analysis = <<>>

InitMaster(nameChoices, kinds, perFolder, lockChoices, limit) ==
    /\ ScoreIdle
    /\ ClassIdle
    /\ RegIdle
    /\ scored = [i \in Folders |-> 0]
    /\ dirs \in nameChoices
    /\ locked \in lockChoices
    /\ \E fs \in BoundedSeqs(kinds, MaxFiles) :
          files \in {d \in Distribute(fs) : \A i \in Folders : Len(d[i]) <= perFolder}
    /\ orig = dirs
    /\ dry_run = TRUE
    /\ listing = <<>>
    /\ pc = "idle" /\ cur = 0 /\ fileIdx = 0
    /\ results = <<>> /\ result = <<>> /\ report = <<>>
    /\ outcome = [i \in Folders |-> "pending"]
    /\ attempts = [i \in Folders |-> 0]
    /\ newNames = [i \in Folders |-> <<>>]
    /\ csv = <<>> /\ renamed = <<>>
    /\ runs = <<>>
    /\ runLimit = limit

\* Folder names of the batch scenario: the second cleans to the first.
BatchNames == <<NameA, NameGoodA, NameB, NameAxial7B>>

\* One scorer run over folders holding every kind of file; the first folder
\* may be one the filesystem refuses to rename.
Init ==
    InitMaster({[i \in Folders |-> BatchNames[i]]},
               {FileAxial, FileMultiFrame, FileCoronal, FileNoPixel, FileCorrupt, FileOther},
               MaxFiles, {{}, {1}}, 1)

\* Path.rename(new): fails when the filesystem refuses it (permission), when
\* another entry of the master folder already has the name (a non-empty
\* directory is never replaced) or when the name is empty.
RenameSucceeds(d, i, new_name) ==
    /\ i \notin locked
    /\ Len(new_name) > 0
    /\ \A j \in DOMAIN d : j # i => d[j] # new_name

\* Variant of AfterFolderError that leaves the loop at the first error result.
AfterFolderErrorStop(i) == NumFolders + 1

\* `continue` after an error result: the loop goes to the next folder.
AfterFolderError(i) == i + 1

\* The script starts: rename_folders_with_scores_and_orientation(master, dry).
StartScorer ==
    /\ pc = "idle"
    /\ Len(runs) < runLimit
    /\ \E d \in BOOLEAN : dry_run' = d
    /\ listing' = dirs
    /\ cur' = 1
    /\ report' = <<>>
    /\ results' = <<>> /\ result' = <<>> /\ fileIdx' = 0
    /\ outcome' = [i \in Folders |-> "pending"]
    /\ attempts' = [i \in Folders |-> 0]
    /\ newNames' = [i \in Folders |-> <<>>]
    /\ scored' = [i \in Folders |-> 0]
    /\ pc' = "scan"
    /\ UNCHANGED <<classVars, regVars, image, analysis,
                   dirs, files, orig, csv, renamed, locked, runs,
                   runLimit>>

\* Top of the for-loop body and the start of analyze_patient_folder: hidden
\* entries are passed over, a folder without DICOM files is an error result.
EnterFolder ==
    /\ pc = "scan"
    /\ cur <= NumFolders
    /\ IF StartsWith(listing[cur], <<".">>)
       THEN /\ outcome' = [outcome EXCEPT ![cur] = "skipped"]
            /\ cur' = cur + 1
            /\ UNCHANGED <<pc, fileIdx, results>>
       ELSE IF Len(DicomFiles(files[cur])) = 0
       THEN /\ outcome' = [outcome EXCEPT ![cur] = "error: No DICOM files found"]
            /\ cur' = AfterFolderError(cur)
            /\ UNCHANGED <<pc, fileIdx, results>>
       ELSE /\ results' = <<>>
            /\ fileIdx' = 1
            /\ pc' = "files"
            /\ UNCHANGED <<outcome, cur>>
    /\ UNCHANGED <<classVars, regVars, scored, image, analysis,
                   dry_run, dirs, files, orig, listing, result,
                   report, attempts, csv, newNames, renamed, locked, runs, runLimit>>

\* Variant of MoreFiles that leaves the file loop after the first file.
MoreFilesFirstOnly(idx, dicom_files) == FALSE

\* `for dcm_file in dicom_files`: the loop goes on while files remain.
MoreFiles(idx, dicom_files) == idx < Len(dicom_files)

\* One iteration of `for dcm_file in dicom_files`.
AnalyzeFile ==
    /\ pc = "files"
    /\ LET dicom_files == DicomFiles(files[cur])
           r == AnalyzeDicomFile([folder |-> listing[cur], file |-> fileIdx],
                                 dicom_files[fileIdx])
       IN /\ result' = r
          /\ results' = IF "error" \notin DOMAIN r THEN Append(results, r) ELSE results
          /\ IF MoreFiles(fileIdx, dicom_files)
             THEN fileIdx' = fileIdx + 1 /\ pc' = pc
             ELSE fileIdx' = fileIdx /\ pc' = "summary"
    /\ scored' = [scored EXCEPT ![cur] = @ + 1]
    /\ UNCHANGED <<classVars, regVars, image, analysis,
                   dry_run, dirs, files, orig, listing, cur,
                   report, outcome, attempts, csv, newNames, renamed, locked, runs,
                   runLimit>>

\* Variant of ReportAppend that drops the row of a folder whose rename failed.
ReportAppendIfRenamed(rows, row, rename_ok) ==
    IF rename_ok THEN Append(rows, row) ELSE rows

\* What the driver appends to its list after the rename was tried or skipped.
ReportAppend(rows, row, rename_ok) == Append(rows, row)

\* Variant of RenameWanted that renames in a dry run too.
RenameWantedAlways(dry) == TRUE

\* `if not dry_run:` in front of the rename.
RenameWanted(dry) == ~dry

\* The rest of analyze_patient_folder and of the loop body: the summary, the
\* new name, the rename (tried once, any exception caught) and the report row.
FinishFolder ==
    /\ pc = "summary"
    /\ IF Len(results) = 0
       THEN /\ outcome' = [outcome EXCEPT ![cur] = "error: No valid DICOM files processed"]
            /\ cur' = AfterFolderError(cur)
            /\ UNCHANGED <<dirs, report, attempts, newNames>>
       ELSE \E most_common \in MostCommonChoices(results) :
              LET summary == FolderSummary(listing[cur], DicomFiles(files[cur]),
                                           results, most_common)
                  new_name == NewName(summary, listing[cur])
                  ok == RenameSucceeds(dirs, cur, new_name)
                  row == [summary |-> summary,
                          original_name |-> listing[cur],
                          new_name |-> new_name]
              IN /\ newNames' = [newNames EXCEPT ![cur] = new_name]
                 /\ IF ~RenameWanted(dry_run)
                    THEN /\ outcome' = [outcome EXCEPT ![cur] = "dry run"]
                         /\ UNCHANGED <<dirs, attempts>>
                    ELSE /\ attempts' = [attempts EXCEPT ![cur] = @ + 1]
                         /\ dirs' = IF ok THEN [dirs EXCEPT ![cur] = new_name] ELSE dirs
                         /\ outcome' = [outcome EXCEPT ![cur] =
                                           IF ok THEN "renamed" ELSE "rename failed"]
                 /\ report' = ReportAppend(report, row, ~RenameWanted(dry_run) \/ ok)
                 /\ cur' = cur + 1
    /\ pc' = "scan"
    /\ UNCHANGED <<classVars, regVars, scored, image, analysis,
                   dry_run, files, orig, listing, fileIdx, results,
                   result, csv, renamed, locked, runs, runLimit>>

\* After the loop: the report is written only when it has rows.
FinishScorer ==
    /\ pc = "scan"
    /\ cur > NumFolders
    /\ csv' = IF Len(report) > 0 THEN report ELSE csv
    /\ runs' = Append(runs, [script |-> "scorer", dry_run |-> dry_run,
                             outcome |-> outcome])
    /\ pc' = "idle"
    /\ UNCHANGED <<classVars, regVars, scored, image, analysis,
                   dry_run, dirs, files, orig, listing, cur, fileIdx,
                   results, result, report, outcome, attempts, newNames, renamed, locked,
                   runLimit>>

Next == StartScorer \/ EnterFolder \/ AnalyzeFile \/ FinishFolder \/ FinishScorer

Spec == Init /\ [][Next]_vars

(***************************************************************************)
(* rename.py: remove_quality_prefix_from_folders                           *)
(***************************************************************************)
StartRemover ==
    /\ pc = "idle"
    /\ Len(runs) < runLimit
    /\ \E d \in BOOLEAN : dry_run' = d
    /\ listing' = dirs
    /\ cur' = 1
    /\ renamed' = <<>>
    /\ outcome' = [i \in Folders |-> "pending"]
    /\ attempts' = [i \in Folders |-> 0]
    /\ newNames' = [i \in Folders |-> <<>>]
    /\ scored' = [i \in Folders |-> 0]
    /\ pc' = "rscan"
    /\ UNCHANGED <<classVars, regVars, image, analysis,
                   dirs, files, orig, fileIdx, results, result,
                   report, csv, locked, runs, runLimit>>

\* parts = folder.name.split("_", 2); the 3-part pattern has a numeric first part.
MatchesPrefixPattern(name) ==
    LET parts == SplitMax(name, 2)
    IN Len(parts) = 3 /\ IsDigit(parts[1])

\* original_name = parts[2]
StrippedName(name) == SplitMax(name, 2)[3]

\* One iteration of `for folder in master_path.iterdir()`.
RemoveStep ==
    /\ pc = "rscan"
    /\ cur <= NumFolders
    /\ LET name == listing[cur]
       IN IF StartsWith(name, <<".">>) \/ ~MatchesPrefixPattern(name)
          THEN /\ outcome' = [outcome EXCEPT ![cur] = "skipped"]
               /\ UNCHANGED <<dirs, attempts, newNames, renamed>>
          ELSE   LET original_name == StrippedName(name)
                     ok == RenameSucceeds(dirs, cur, original_name)
                 IN /\ newNames' = [newNames EXCEPT ![cur] = original_name]
                    /\ IF dry_run
                       THEN /\ outcome' = [outcome EXCEPT ![cur] = "dry run"]
                            /\ UNCHANGED <<dirs, attempts, renamed>>
                       ELSE /\ attempts' = [attempts EXCEPT ![cur] = @ + 1]
                            /\ dirs' = IF ok THEN [dirs EXCEPT ![cur] = original_name]
                                       ELSE dirs
                            /\ renamed' = IF ok THEN Append(renamed, <<name, original_name>>)
                                          ELSE renamed
                            /\ outcome' = [outcome EXCEPT ![cur] =
                                              IF ok THEN "renamed" ELSE "rename failed"]
    /\ cur' = cur + 1
    /\ UNCHANGED <<classVars, regVars, scored, image, analysis,
                   dry_run, files, orig, listing, pc, fileIdx,
                   results, result, report, csv, locked, runs, runLimit>>

FinishRemover ==
    /\ pc = "rscan"
    /\ cur > NumFolders
    /\ runs' = Append(runs, [script |-> "remover", dry_run |-> dry_run,
                             outcome |-> outcome])
    /\ pc' = "idle"
    /\ UNCHANGED <<classVars, regVars, scored, image, analysis,
                   dry_run, dirs, files, orig, listing, cur, fileIdx,
                   results, result, report, outcome, attempts, csv, newNames, renamed,
                   locked, runLimit>>

RunNames == <<NameA, NameGoodA, NameAxial7B, NameNumeric, NameHidden>>

\* Several runs of the two scripts, one after the other, on the same master
\* folder; the folder names are consecutive names of RunNames, taken cyclically.
InitRuns ==
    InitMaster({[i \in Folders |-> RunNames[((r + i) % Len(RunNames)) + 1]] :
                  r \in 1..Len(RunNames)},
               {FileAxial, FileCoronal, FileNoRegion},
               1, {{}}, MaxRuns)

NextRuns == Next \/ StartRemover \/ RemoveStep \/ FinishRemover

SpecRuns == InitRuns /\ [][NextRuns]_vars

(***************************************************************************)
(* Properties of the batch (Spec: one scorer run)                          *)
(***************************************************************************)
\* What analyze_dicom_file returns for the files of folder i, in glob order.
FileRecords(i) ==
    LET dicom_files == DicomFiles(files[i])
    IN [j \in 1..Len(dicom_files) |->
          AnalyzeDicomFile([folder |-> listing[i], file |-> j], dicom_files[j])]

\* The records of the successfully scored files of folder i.
Successful(i) == SelectSeq(FileRecords(i), LAMBDA r : "error" \notin DOMAIN r)

Started == listing # <<>>

RunOver == Started /\ pc = "idle"

\* The folder a report row is about.
FolderOf(row) == CHOOSE i \in Folders : listing[i] = row.original_name

ErrorOutcomes ==
    {"error: No DICOM files found", "error: No valid DICOM files processed"}

\* C5: best_score is the maximum composite score over the successfully scored
\* files of the folder, and orientation, confidence, quality class and
\* acquisition plane of the row are those of one file that has that score.
C5_BestFileDecidesRow ==
    \A k \in 1..Len(report) :
        LET row == report[k].summary
            rs == Successful(FolderOf(report[k]))
        IN /\ Len(rs) > 0
           /\ \A j \in 1..Len(rs) : rs[j].composite_score <= row.best_score
           /\ \E j \in 1..Len(rs) :
                 /\ rs[j].composite_score = row.best_score
                 /\ rs[j].file_path = row.best_file
                 /\ rs[j].fetal_orientation = row.fetal_orientation
                 /\ rs[j].orientation_confidence = row.orientation_confidence
                 /\ rs[j].quality_class = row.best_quality_class
                 /\ rs[j].maternal_acquisition_plane = row.maternal_acquisition_plane

\* C5 witness: a folder of two scored files whose best file is the second one
\* and is not of the orientation reported as most common.
C5_Witness ==
    \E k \in 1..Len(report) :
        LET row == report[k].summary
        IN /\ row.valid_dicoms = 2
           /\ row.fetal_orientation # row.most_common_fetal_orientation
           /\ row.all_results[1].composite_score < row.best_score
           /\ row.best_file = row.all_results[2].file_path

\* The first orientation, in file order, among those with the highest count.
FirstMostCommon(rs) ==
    LET top == MostCommonChoices(rs)
        j == CHOOSE n \in 1..Len(rs) :
                /\ rs[n].fetal_orientation \in top
                /\ \A m \in 1..(n - 1) : rs[m].fetal_orientation \notin top
    IN rs[j].fetal_orientation

\* C6: most_common_fetal_orientation has the highest occurrence count among the
\* scored files and, on a tie, is the one met first in file order.
C6_MostCommonFirstOnTie ==
    \A k \in 1..Len(report) :
        LET rs == Successful(FolderOf(report[k]))
            o == report[k].summary.most_common_fetal_orientation
        IN /\ \A j \in 1..Len(rs) : Count(rs, rs[j].fetal_orientation) <= Count(rs, o)
           /\ o = FirstMostCommon(rs)

\* C7: a folder without a successfully scored file gets an error result, is
\* never renamed and has no report row, and the run still handles every folder.
C7_FailedFolderSkipped ==
    /\ \A i \in Folders :
         (Started /\ Len(Successful(i)) = 0) =>
            /\ dirs[i] = orig[i]
            /\ attempts[i] = 0
            /\ \A k \in 1..Len(report) : report[k].original_name # listing[i]
            /\ \A k \in 1..Len(csv) : csv[k].original_name # listing[i]
            /\ (cur > i \/ pc = "idle") => outcome[i] \in ErrorOutcomes
    /\ RunOver =>
         \A i \in Folders :
            /\ outcome[i] # "pending"
            /\ Len(Successful(i)) > 0 =>
                  \E k \in 1..Len(report) : report[k].original_name = listing[i]

\* C7 witness: the first folder gave an error result and the second one was
\* renamed afterwards.
C7_Witness ==
    /\ RunOver
    /\ outcome[1] \in ErrorOutcomes
    /\ Len(files[1]) > 0
    /\ outcome[2] = "renamed"

\* C8: every failure of analyze_dicom_file gives a record with the file path
\* and the message, the file counts in no aggregate, and the run goes on.
C8_ErrorRecordHasPathAndMessage ==
    (Started /\ result # <<>> /\ "error" \in DOMAIN result) =>
        "file_path" \in DOMAIN result

\* C9: a rename is tried once; when it fails the folder keeps its name, the
\* new name is still in the folder's report row, and the other folders are
\* still handled.
C9_RenameFailureIsLocal ==
    /\ \A i \in Folders : attempts[i] <= 1
    /\ \A i \in Folders :
         (Started /\ outcome[i] = "rename failed") =>
            /\ attempts[i] = 1
            /\ dirs[i] = listing[i]
            /\ \E k \in 1..Len(report) :
                  /\ report[k].original_name = listing[i]
                  /\ report[k].new_name = newNames[i]
                  /\ report[k].new_name # listing[i]
                  /\ Len(report[k].new_name) > 0
    /\ RunOver =>
         \A i \in Folders :
            /\ outcome[i] # "pending"
            /\ (~dry_run /\ Len(Successful(i)) > 0) => attempts[i] = 1

\* C9 witness: the first folder's rename failed and the second folder was
\* renamed after it.
C9_Witness ==
    /\ RunOver
    /\ outcome[1] = "rename failed"
    /\ outcome[2] = "renamed"
    /\ Len(csv) = 2

\* Folder i is renamed, or gets its new name or its report row, in this step.
Concluded(i) ==
    \/ dirs'[i] # dirs[i]
    \/ attempts'[i] > attempts[i]
    \/ (newNames'[i] # newNames[i] /\ newNames'[i] # <<>>)
    \/ (Len(report') > Len(report)
          /\ report'[Len(report')].original_name = listing[i])

\* C12: within a batch run a folder is renamed, and its summary and new name
\* are computed, only after analyze_dicom_file has finished on every DICOM
\* file of that folder.
C12_RenameAfterAllFilesScored ==
    [][\A i \in Folders :
          Concluded(i) =>
             /\ scored[i] = Len(DicomFiles(files[i]))
             /\ scored'[i] = scored[i]
             /\ fileIdx = Len(DicomFiles(files[i]))]_vars

\* C12 witness: a folder of two DICOM files was renamed, both files analysed.
C12_Witness ==
    \E i \in Folders :
        /\ Len(DicomFiles(files[i])) = 2
        /\ scored[i] = 2
        /\ outcome[i] = "renamed"
        /\ dirs[i] = newNames[i] /\ dirs[i] # listing[i]

(***************************************************************************)
(* Properties of the names (SpecRuns: runs of both scripts)                *)
(***************************************************************************)
\* The number a sequence of digits writes.
RECURSIVE StrToInt(_)
StrToInt(s) ==
    IF Len(s) = 0 THEN 0
    ELSE 10 * StrToInt(SubSeq(s, 1, Len(s) - 1))
         + ((CHOOSE d \in 1..10 : DigitChars[d] = s[Len(s)]) - 1)

\* A score field: digits, at least two, no more zeros in front than that needs.
IsPaddedNumber(s, n) ==
    /\ IsDigit(s)
    /\ Len(s) >= 2
    /\ StrToInt(s) = n
    /\ Len(s) > 2 => s[1] # "0"

\* The confidence token of a confidence in thousandths.
IsConfidenceToken(s, conf) ==
    IF conf > 500
    THEN /\ Len(s) >= 3 /\ s[1] = "C"
         /\ IsPaddedNumber(Tail(s), (conf * 100) \div 1000)
    ELSE s = <<"C", "?", "?">>

\* C1: a folder whose name does not match the 3-field numeric-prefixed pattern,
\* renamed by the scorer and then by the prefix remover (both with
\* dry_run=False), has exactly its original name again.
C1_RoundTripRestoresName ==
    \A i \in Folders :
        ( /\ pc = "idle" /\ Len(runs) = 2
          /\ runs[1].script = "scorer" /\ ~runs[1].dry_run
          /\ runs[2].script = "remover" /\ ~runs[2].dry_run
          /\ runs[1].outcome[i] = "renamed"
          /\ runs[2].outcome[i] = "renamed"
          /\ ~MatchesPrefixPattern(orig[i]) )
        => dirs[i] = orig[i]

\* The score field {score:02d}: a score of 0 or more as at least two digits, a
\* negative one as a minus sign and its digits.
IsScoreField(s, n) ==
    IF n >= 0 THEN IsPaddedNumber(s, n)
    ELSE /\ Len(s) >= 2 /\ s[1] = "-"
         /\ IsDigit(Tail(s))
         /\ StrToInt(Tail(s)) = -n

\* The first four fields of a report row's new name.
PrefixFieldsOk(r) ==
    LET row == r.summary
        parts == SplitMax(r.new_name, 4)
    IN /\ Len(parts) = 5
       /\ IsScoreField(parts[1], row.best_score)
       /\ parts[2] = Chars(row.best_quality_class)
       /\ parts[3] = Chars(row.fetal_orientation)
       /\ IsConfidenceToken(parts[4], row.orientation_confidence)

\* C10 as stated: the new name is score (two digits or more, zero-padded),
\* quality class, upper-case orientation, confidence token and the original
\* folder name, joined by single underscores, the original name unchanged.
C10_FiveFieldsOriginalLast ==
    \A k \in 1..Len(report) :
        /\ PrefixFieldsOk(report[k])
        /\ SplitMax(report[k].new_name, 4)[5] = report[k].original_name

\* C10 amended: the new name is those five fields joined by single underscores,
\* and the last field is the original folder name unless that name starts with
\* EXCELLENT_, GOOD_, FAIR_, POOR_, AXIAL_, SAGITTAL_ or CORONAL_: then its
\* all-digit fields and its quality and orientation words are dropped from it
\* first (and it is kept whole when nothing would remain).
C10_FiveFieldsCleanedLast ==
    \A k \in 1..Len(report) :
        LET name == report[k].original_name
            kept == SelectSeq(Split(name), LAMBDA part :
                        ~IsDigit(part) /\ \A w \in PrefixWords : part # Chars(w))
        IN /\ PrefixFieldsOk(report[k])
           /\ SplitMax(report[k].new_name, 4)[5] =
                (IF (\E w \in PrefixWords : StartsWith(name, Chars(w) \o <<"_">>))
                      /\ Len(kept) > 0
                 THEN Join(kept) ELSE name)

\* C10 witness: a one-digit score and a confidence above 0.5 in one run, on a
\* folder whose name has no prefix, and a prefixed folder in the same report.
C10_Witness ==
    /\ Len(report) = 2
    /\ \E k \in 1..2 :
         /\ report[k].summary.best_score \in 0..9
         /\ ~HasKnownPrefix(report[k].original_name)
    /\ \E k \in 1..2 :
         /\ report[k].summary.orientation_confidence > 500
         /\ HasKnownPrefix(report[k].original_name)

\* The runs so far were all scorer runs with dry_run=False that renamed folder i.
OnlyScorerRenames(i) ==
    /\ pc = "idle" /\ Len(runs) >= 1
    /\ \A k \in 1..Len(runs) :
          /\ runs[k].script = "scorer" /\ ~runs[k].dry_run
          /\ runs[k].outcome[i] = "renamed"

\* C13: existing prefixes are removed before a new one is added, so after any
\* number of consecutive scorer runs with dry_run=False a folder's name is
\* exactly one score/quality/orientation/confidence prefix in front of its
\* original name (folders whose original name starts with none of the
\* quality and orientation words).
C13_OnePrefixAfterScorerRuns ==
    \A i \in Folders :
        (OnlyScorerRenames(i) /\ ~HasKnownPrefix(orig[i])) =>
            LET parts == SplitMax(dirs[i], 4)
            IN /\ Len(parts) = 5
               /\ parts[2] \in {Chars(w) : w \in {"EXCELLENT", "GOOD", "FAIR", "POOR"}}
               /\ parts[3] \in {Chars(w) : w \in {"AXIAL", "SAGITTAL", "CORONAL", "UNKNOWN"}}
               /\ parts[5] = orig[i]

\* C15: with dry_run=True neither script renames a folder: during and after
\* the run every folder has the name it had when the run started, and no
\* rename was tried, whatever the folders hold and whatever was scored.
C15_DryRunKeepsNames ==
    (Started /\ dry_run) =>
        /\ \A i \in Folders : dirs[i] = listing[i] /\ attempts[i] = 0
        /\ {dirs[i] : i \in Folders} = {listing[i] : i \in Folders}

\* C15 witness: a dry run of the scorer and then one of the remover, each of
\* which printed a rename it would make, have left the names as they were.
C15_Witness ==
    /\ pc = "idle" /\ Len(runs) = 2
    /\ runs[1].script = "scorer" /\ runs[1].dry_run
    /\ runs[2].script = "remover" /\ runs[2].dry_run
    /\ \E i \in Folders : runs[1].outcome[i] = "dry run"
    /\ \E i \in Folders : runs[2].outcome[i] = "dry run" /\ newNames[i] # dirs[i]
    /\ dirs = orig

(***************************************************************************)
(* ants_register.py: rigid registration of a subject volume to an atlas    *)
(***************************************************************************)
MaxRegFiles == 4

\* Pieces of the file names the script tests for or writes.
TokAtlas == <<"t", "2", "w", "_", "G", "A">>
TokTissue == <<"_", "t", "i", "s", "s", "u", "e">>
TokSrr == <<"s", "r", "r", "_", "d", "e", "c", "o", "n", "v">>
ExtNii == <<".", "n", "i", "i", ".", "g", "z">>
SuffixRai == <<"_", "r", "a", "i">> \o ExtNii

\* reg_dir, shortened to a path that holds none of the tested pieces either.
RegDirPath == <<"/", "r", "e", "g">>

\* os.path.join(reg_dir, name)
PathJoin(name) == RegDirPath \o <<"/">> \o name

BaseName(path) == SubSeq(path, Len(RegDirPath) + 2, Len(path))

NameAtlas37 == TokAtlas \o <<"3", "7">> \o TokTissue \o ExtNii
NameAtlas38 == TokAtlas \o <<"3", "8">> \o TokTissue \o ExtNii
NameMoving ==
    <<"F", "X", "2", "7", "-", "s", "1", "_", "e", "x", "t", "r", "a", "c", "t", "e", "d">>
    \o ExtNii
NameSrr == TokSrr \o ExtNii
NamePial == <<"s", "_", "L", "_", "p", "i", "a", "l">> \o ExtNii
NameWhite == <<"s", "_", "R", "_", "w", "h", "i", "t", "e">> \o ExtNii
NameNotes == <<"n", "o", "t", "e", "s", ".", "t", "x", "t">>
NameRegistered ==
    <<"s", "r", "r", "_", "r", "e", "g", "i", "s", "t", "e", "r", "e", "d">> \o ExtNii

\* The files a registration folder may hold before the script runs.
RegCandidates ==
    {PathJoin(n) : n \in {NameAtlas37, NameAtlas38, NameMoving, NameSrr, NamePial,
                          NameWhite, NameNotes, NameRegistered}}

\* moving_vol = os.path.join(reg_dir, "FX27-s1_extracted.nii.gz")
MovingVol == PathJoin(NameMoving)

\* out_moving = os.path.join(reg_dir, "srr_registered.nii.gz")
OutMoving == PathJoin(NameRegistered)

\* str.endswith(suffix)
EndsWith(s, suffix) ==
    /\ Len(s) >= Len(suffix)
    /\ SubSeq(s, Len(s) - Len(suffix) + 1, Len(s)) = suffix

\* `sub in s` for strings
Contains(s, sub) ==
    \E i \in 1..(Len(s) - Len(sub) + 1) : SubSeq(s, i, i + Len(sub) - 1) = sub

\* s.replace(old, new): every occurrence, left to right.
RECURSIVE Replace(_, _, _)
Replace(s, old, new) ==
    IF Len(s) = 0 THEN <<>>
    ELSE IF StartsWith(s, old)
    THEN new \o Replace(SubSeq(s, Len(old) + 1, Len(s)), old, new)
    ELSE <<s[1]>> \o Replace(Tail(s), old, new)

\* glob pattern "t2w_GA*_tissue.nii.gz" on a file name
MatchesAtlasPattern(name) ==
    /\ StartsWith(name, TokAtlas)
    /\ EndsWith(name, TokTissue \o ExtNii)
    /\ Len(name) >= Len(TokAtlas) + Len(TokTissue \o ExtNii)

\* glob pattern "*.nii.gz" on a file name (a leading dot is not matched by *)
MatchesNiiPattern(name) ==
    /\ EndsWith(name, ExtNii)
    /\ name[1] # "."

\* glob.glob gives the matches in the order of the directory listing, which
\* is arbitrary: every ordering of the set.
Orderings(S) == {q \in [1..Cardinality(S) -> S] : Injective(q)}

\* The filter of the list comprehension on mask_files.
KeptAsMask(f) == ~Contains(f, TokAtlas) /\ ~Contains(f, TokSrr)

\* The registration folder before the script is started.
InitReg ==
    /\ reg_dir \in {S \in SUBSET RegCandidates : Cardinality(S) <= MaxRegFiles}
    /\ atlas = <<>> /\ mask_files = <<>>
    /\ maskIdx = 0 /\ transformed = {} /\ regPc = "start"
    /\ ScoreIdle
    /\ ClassIdle
    /\ BatchUnused("off")

regOther == <<classVars, image, analysis, batchVars>>

\* Step 1: the two globs and the filter on mask_files.
IdentifyFiles ==
    /\ regPc = "start"
    /\ atlas' \in Orderings({f \in reg_dir : MatchesAtlasPattern(BaseName(f))})
    /\ \E found \in Orderings({f \in reg_dir : MatchesNiiPattern(BaseName(f))}) :
          mask_files' = SelectSeq(found, KeptAsMask)
    /\ regPc' = "check"
    /\ UNCHANGED <<reg_dir, maskIdx, transformed, regOther>>

\* The two existence checks (either raises FileNotFoundError) and
\* atlas = atlas[0].
CheckInputs ==
    /\ regPc = "check"
    /\ IF Len(atlas) = 0 \/ MovingVol \notin reg_dir
       THEN regPc' = "failed" /\ UNCHANGED atlas
       ELSE regPc' = "register" /\ atlas' = atlas[1]
    /\ UNCHANGED <<reg_dir, mask_files, maskIdx, transformed, regOther>>

\* Steps 2 and 3: the images are read, the rigid registration is computed and
\* the warped moving volume is written to out_moving.
Register ==
    /\ regPc = "register"
    /\ reg_dir' = reg_dir \cup {OutMoving}
    /\ maskIdx' = 1
    /\ regPc' = "masks"
    /\ UNCHANGED <<atlas, mask_files, transformed, regOther>>

\* Step 4, one iteration of `for mask_file in mask_files`: the transform is
\* applied to the file and the result written to out_mask.
ApplyToMask ==
    /\ regPc = "masks"
    /\ maskIdx <= Len(mask_files)
    /\ LET mask_file == mask_files[maskIdx]
           out_mask == Replace(mask_file, ExtNii, SuffixRai)
       IN /\ transformed' = transformed \cup {mask_file}
          /\ reg_dir' = reg_dir \cup {out_mask}
    /\ maskIdx' = maskIdx + 1
    /\ UNCHANGED <<atlas, mask_files, regPc, regOther>>

\* The loop is over: "Registration completed for all files."
FinishRegistration ==
    /\ regPc = "masks"
    /\ maskIdx > Len(mask_files)
    /\ regPc' = "done"
    /\ UNCHANGED <<reg_dir, atlas, mask_files, maskIdx, transformed, regOther>>

NextReg ==
    IdentifyFiles \/ CheckInputs \/ Register \/ ApplyToMask \/ FinishRegistration

SpecReg == InitReg /\ [][NextReg]_vars

\* The script got past its input checks: atlas is the atlas file in use.
InputsAccepted == regPc \in {"register", "masks", "done"}

\* C14: the atlas file and the moving subject volume are removed from the mask
\* list: the files the transform is applied to, and for which a resampled mask
\* is written, never include the atlas volume or the moving volume.
C14_AtlasAndMovingNotMasks ==
    InputsAccepted =>
        /\ \A k \in 1..Len(mask_files) :
              mask_files[k] # atlas /\ mask_files[k] # MovingVol
        /\ atlas \notin transformed
        /\ MovingVol \notin transformed

====
